---- MODULE Spec2Model ----
(***************************************************************************)
(* Authentication and session gating of the StageTwo web interface         *)
(* (src/stagtwo_webgui/web_interface_server.py):                           *)
(*   - DisplayAuth, first definition (rate limited): rotating PIN,         *)
(*     per-client attempt counters, session tokens;                        *)
(*   - EnhancedWebServer._check_auth, the access gate;                     *)
(*   - DisplayAuth, second definition, the one the name is bound to when   *)
(*     EnhancedWebServer is constructed, and _handle_auth on top of it;    *)
(*   - NVMSecretManager, the framed secret in non-volatile memory.         *)
(*                                                                         *)
(* Time: time.monotonic() is a float number of seconds.  The model counts  *)
(* time in ticks, TicksPerSecond ticks to the second, so that a fraction   *)
(* of a second exists and int() truncation is a real operation.            *)
(* Strings that are searched or concatenated are sequences of one          *)
(* character strings; PINs and client ids, which are only compared, are    *)
(* TLA+ strings.                                                           *)
(***************************************************************************)
EXTENDS Integers, Sequences, FiniteSets, TLC

VARIABLES
    now,                \* time.monotonic(), in ticks
    current_pin,        \* DisplayAuth.current_pin
    pin_generated_time, \* DisplayAuth.pin_generated_time, in ticks
    session_tokens,     \* DisplayAuth.session_tokens
    pin_attempts,       \* DisplayAuth.pin_attempts: a dict client -> count
    auth_required,      \* EnhancedWebServer.auth_required
    last,               \* the last call made and what it returned
    issued,             \* history: tokens returned by verify since the last logout_all
    fails,              \* history: failed verifies per client since its last success
    rotated_past,       \* history: clients that were locked out when the PIN rotated
    nvm,                \* microcontroller.nvm, a sequence of bytes
    saved               \* history: <<s>> for the s of the last successful save
                        \* with no successful clear since, else << >>

vars == <<now, current_pin, pin_generated_time, session_tokens, pin_attempts,
          auth_required, last, issued, fails, rotated_past, nvm, saved>>

(***************************************************************************)
(* Program constants and bounds                                            *)
(***************************************************************************)
pin_duration == 120
max_attempts == 5
TokenLength == 32

TicksPerSecond == 2
MaxInstants == 5
MaxFails == 6
MaxSessions == 2
\* NVMSecretManager's constructor arguments: the offset is the default, the
\* secret length is kept small.
nvm_offset == 0
secret_length == 3

Window == pin_duration * TicksPerSecond

\* The instants at which the clock is read lie around the multiples of the
\* window: 0, 1, Window - 1, Window, Window + 1, 2 * Window - 1, ... (in ticks).
InstantAt(k) == (k \div 3) * Window + (k % 3) - 1
Instants == {InstantAt(k) : k \in 1..MaxInstants}

Clients == {"A", "B"}
PINS == {"482913", "017744"}
EnteredPins == PINS \cup {"000000"}

Max(a, b) == IF a >= b THEN a ELSE b

(***************************************************************************)
(* Strings as sequences of characters                                      *)
(***************************************************************************)
Rep(c, n) == [i \in 1..n |-> c]

Digit(d) == <<"0", "1", "2", "3", "4", "5", "6", "7", "8", "9">>[d + 1]

RECURSIVE Digits(_)
Digits(n) == IF n < 10 THEN <<Digit(n)>> ELSE Digits(n \div 10) \o <<Digit(n % 10)>>

\* Python's `needle in hay` for strings.
Contains(hay, needle) ==
    \E i \in 0..(Len(hay) - Len(needle)) :
        \A j \in 1..Len(needle) : hay[i + j] = needle[j]

\* int(time.monotonic() * 1000)
Millis(t) == (t * 1000) \div TicksPerSecond

SessionPrefix == <<"s", "e", "s", "s", "i", "o", "n", "_">>

\* _generate_session_token: 32 characters drawn from letters and digits, or,
\* when urandom cannot be imported, "session_<milliseconds>".
RandomTokens == {Rep("A", TokenLength)}
FallbackToken(t) == SessionPrefix \o Digits(Millis(t))
GeneratedTokens(t) == RandomTokens \cup {FallbackToken(t)}

AllTokens == RandomTokens \cup {FallbackToken(t) : t \in Instants}

(***************************************************************************)
(* NVMSecretManager.  A str is a sequence of code points, bytes are a       *)
(* sequence of numbers 0..255; encode('ascii') and decode('ascii') keep the *)
(* numbers and fail on one above 127.  Python's nvm[i] is nvm[i + 1] here.  *)
(***************************************************************************)
Zeros(n) == [i \in 1..n |-> 0]

\* self.magic = b'TOTP'
magic == <<84, 79, 80, 84>>
\* self.nvm_size = secret_length + 4
nvm_size == secret_length + 4
\* The frame magic || length || payload of a full-length secret
FrameLen == Len(magic) + 1 + secret_length
\* The size of microcontroller.nvm: the frame region and some bytes after it
NvmLen == nvm_offset + FrameLen + 2

PadChar == 65    \* 'A'
IsAscii(seq) == \A i \in 1..Len(seq) : seq[i] <= 127

\* secret[:secret_length] or secret.ljust(secret_length, 'A'), without the pad
NoPadding(secret) ==
    IF Len(secret) > secret_length THEN SubSeq(secret, 1, secret_length) ELSE secret

\* secret[:secret_length] or secret.ljust(secret_length, 'A')
PadOrTruncate(secret) ==
    IF Len(secret) > secret_length THEN SubSeq(secret, 1, secret_length)
    ELSE secret \o [i \in 1..(secret_length - Len(secret)) |-> PadChar]

\* A frame without its length byte.
FrameNoLength(secret) == magic \o secret

\* self.magic + bytes([len(secret)]) + secret.encode('ascii')
Frame(secret) == magic \o <<Len(secret)>> \o secret

\* mem[a:b], Python's slice
Slice(mem, a, b) == SubSeq(mem, a + 1, IF b > Len(mem) THEN Len(mem) ELSE b)

\* mem[a:a + len(data)] = data, where it fits
WriteAt(mem, a, data) ==
    [i \in 1..Len(mem) |-> IF i > a /\ i <= a + Len(data) THEN data[i - a] ELSE mem[i]]

\* A save that reports success whether or not the storage took the write.
SaveWorksBlind(secret, write_ok) ==
    /\ IsAscii(PadOrTruncate(secret))
    /\ nvm_offset + Len(Frame(PadOrTruncate(secret))) <= Len(nvm)

\* save_secret succeeds: the secret encodes, the frame fits and the write to
\* the storage goes through (write_ok: the storage did not raise).
SaveWorks(secret, write_ok) ==
    /\ IsAscii(PadOrTruncate(secret))
    /\ nvm_offset + Len(Frame(PadOrTruncate(secret))) <= Len(nvm)
    /\ write_ok

\* save_secret's effect on the storage
save_secret(secret, write_ok) ==
    IF SaveWorks(secret, write_ok)
    THEN nvm' = WriteAt(nvm, nvm_offset, Frame(PadOrTruncate(secret)))
    ELSE UNCHANGED nvm

\* load_secret's reading of a frame: the magic and the length byte are as
\* they must be and the payload decodes
StoredLen == nvm[nvm_offset + 4 + 1]
StoredPayload == Slice(nvm, nvm_offset + 5, nvm_offset + 5 + StoredLen)
ValidFrame ==
    /\ Slice(nvm, nvm_offset, nvm_offset + 4) = magic
    /\ StoredLen # 0 /\ StoredLen <= secret_length
    /\ IsAscii(StoredPayload)

\* generate_secret: secret_length characters of the base32 alphabet
SecretChars == {65, 66}
GeneratedSecrets == [1..secret_length -> SecretChars]

\* "JBSWY3DPEHPK3PXP", what _generate_and_save_new_secret returns when the save fails
FallbackSecret == <<74, 66, 83, 87, 89, 51, 68, 80, 69, 72, 80, 75, 51, 80, 88, 80>>

\* _generate_and_save_new_secret: the value it returns
GenerateAndSaveResult(secret, write_ok) ==
    IF SaveWorks(secret, write_ok) THEN secret ELSE FallbackSecret

\* load_secret: its effect on the storage, the path it takes and the value it
\* returns, with `generated` the secret generate_secret would draw
load_secret(generated, write_ok) ==
    IF ValidFrame THEN UNCHANGED nvm ELSE save_secret(generated, write_ok)
LoadReason(generated, write_ok) ==
    IF ValidFrame THEN "stored"
    ELSE IF SaveWorks(generated, write_ok) THEN "generated" ELSE "fallback"
LoadValue(generated, write_ok) ==
    IF ValidFrame THEN StoredPayload ELSE GenerateAndSaveResult(generated, write_ok)


(***************************************************************************)
(* Return values                                                           *)
(***************************************************************************)
NoClient == "-"
NoArg == <<>>
Ret(op, client, arg, ok, reason, value) ==
    [op |-> op, client |-> client, arg |-> arg, ok |-> ok, reason |-> reason,
     value |-> value, status |-> 0]
\* What an HTTP handler answers: the Response's status code goes with it.
HttpRet(op, arg, ok, reason, value, status) ==
    [op |-> op, client |-> NoClient, arg |-> arg, ok |-> ok, reason |-> reason,
     value |-> value, status |-> status]

(***************************************************************************)
(* DisplayAuth (first definition)                                          *)
(***************************************************************************)
\* Variants of the expiry test with a slip in them: rotating one second early,
\* and the operands of the subtraction exchanged.
ExpiredEarly == now - pin_generated_time > Window - TicksPerSecond
ExpiredSwapped == pin_generated_time - now > Window

\* get_current_pin's test: current_time - pin_generated_time > pin_duration
Expired == now - pin_generated_time > Window

\* The remaining time without the clamp at zero.
RemainingUnclamped == (Window - (now - pin_generated_time)) \div TicksPerSecond

\* get_pin_time_remaining: int(max(0, pin_duration - elapsed)), in seconds
get_pin_time_remaining == Max(0, Window - (now - pin_generated_time)) \div TicksPerSecond

\* The rate-limit test with > for >=.
LockedOutLate(c) == c \in DOMAIN pin_attempts /\ pin_attempts[c] > max_attempts

\* verify_pin's rate-limit test
LockedOut(c) == c \in DOMAIN pin_attempts /\ pin_attempts[c] >= max_attempts

\* A success that leaves the counter in place, and one that drops every counter.
DictKeep(d, c) == d
DictClear(d, c) == <<>>

\* del pin_attempts[c]
DictDel(d, c) == [k \in (DOMAIN d) \ {c} |-> d[k]]
\* A failure that restarts the count at one.
DictSetOne(d, c) == [k \in (DOMAIN d) \cup {c} |-> IF k = c THEN 1 ELSE d[k]]

\* pin_attempts[c] = pin_attempts.get(c, 0) + 1
DictInc(d, c) ==
    [k \in (DOMAIN d) \cup {c} |-> IF k = c THEN (IF c \in DOMAIN d THEN d[c] ELSE 0) + 1
                                            ELSE d[k]]

\* refresh_pin: a PIN drawn by _generate_random_pin, stamped with the time
refresh_pin ==
    /\ current_pin' \in PINS
    /\ pin_generated_time' = now
    /\ rotated_past' = rotated_past \cup {c \in Clients : LockedOut(c)}

\* A get_current_pin that never rotates.
StalePin == UNCHANGED <<current_pin, pin_generated_time, rotated_past>>

\* get_current_pin's effect on the state: rotates when expired
get_current_pin ==
    IF Expired THEN refresh_pin
    ELSE UNCHANGED <<current_pin, pin_generated_time, rotated_past>>

Advance(t) ==
    /\ UNCHANGED <<nvm, saved>>
    /\ t > now
    /\ now' = t
    /\ last' = Ret("advance", NoClient, NoArg, TRUE, "", 0)
    /\ UNCHANGED <<current_pin, pin_generated_time, session_tokens, pin_attempts,
                   auth_required, issued, fails, rotated_past>>

\* A rotation that forgives the failed attempts.
GetCurrentPinForgiving ==
    /\ UNCHANGED <<nvm, saved>>
    /\ get_current_pin
    /\ pin_attempts' = IF Expired THEN <<>> ELSE pin_attempts
    /\ last' = Ret("current", NoClient, NoArg, TRUE, "", current_pin')
    /\ UNCHANGED <<now, session_tokens, auth_required, issued, fails>>

\* get_current_pin as a call of its own
GetCurrentPin ==
    /\ UNCHANGED <<nvm, saved>>
    /\ get_current_pin
    /\ last' = Ret("current", NoClient, NoArg, TRUE, "", current_pin')
    /\ UNCHANGED <<now, session_tokens, pin_attempts, auth_required, issued, fails>>

GetPinTimeRemaining ==
    /\ UNCHANGED <<nvm, saved>>
    /\ last' = Ret("time_remaining", NoClient, NoArg, TRUE, "", get_pin_time_remaining)
    /\ UNCHANGED <<now, current_pin, pin_generated_time, session_tokens, pin_attempts,
                   auth_required, issued, fails, rotated_past>>

\* A verify that reads the PIN before it tests the lockout.
VerifyPinRotatesFirst(entered, c) ==
    /\ UNCHANGED <<nvm, saved>>
    /\ fails[c] < MaxFails
    /\ get_current_pin
    /\ IF LockedOut(c)
       THEN /\ last' = Ret("verify", c, entered, FALSE, "lockout", 0)
            /\ fails' = [fails EXCEPT ![c] = @ + 1]
            /\ UNCHANGED <<session_tokens, pin_attempts, issued>>
       ELSE IF entered = current_pin'
            THEN \E tok \in GeneratedTokens(now) :
                 /\ Cardinality(session_tokens \cup {tok}) <= MaxSessions
                 /\ pin_attempts' = [k \in (DOMAIN pin_attempts) \ {c} |-> pin_attempts[k]]
                 /\ session_tokens' = session_tokens \cup {tok}
                 /\ last' = Ret("verify", c, entered, TRUE, "", tok)
                 /\ issued' = issued \cup {tok}
                 /\ fails' = [fails EXCEPT ![c] = 0]
            ELSE /\ pin_attempts' =
                        [k \in (DOMAIN pin_attempts) \cup {c} |->
                            IF k = c
                            THEN (IF c \in DOMAIN pin_attempts THEN pin_attempts[c] ELSE 0) + 1
                            ELSE pin_attempts[k]]
                 /\ last' = Ret("verify", c, entered, FALSE, "invalid",
                                max_attempts - pin_attempts'[c])
                 /\ fails' = [fails EXCEPT ![c] = @ + 1]
                 /\ UNCHANGED <<session_tokens, issued>>
    /\ UNCHANGED <<now, auth_required>>

\* verify_pin: the lockout test, then get_current_pin and the comparison
VerifyPin(entered, c) ==
    /\ UNCHANGED <<nvm, saved>>
    /\ fails[c] < MaxFails
    /\ IF LockedOut(c)
       THEN /\ last' = Ret("verify", c, entered, FALSE, "lockout", 0)
            /\ fails' = [fails EXCEPT ![c] = @ + 1]
            /\ UNCHANGED <<current_pin, pin_generated_time, session_tokens,
                           pin_attempts, issued, rotated_past>>
       ELSE /\ get_current_pin
            /\ IF entered = current_pin'
               THEN \E tok \in GeneratedTokens(now) :
                    /\ Cardinality(session_tokens \cup {tok}) <= MaxSessions
                    /\ pin_attempts' = DictDel(pin_attempts, c)
                    /\ session_tokens' = session_tokens \cup {tok}
                    /\ last' = Ret("verify", c, entered, TRUE, "", tok)
                    /\ issued' = issued \cup {tok}
                    /\ fails' = [fails EXCEPT ![c] = 0]
               ELSE /\ pin_attempts' = DictInc(pin_attempts, c)
                    /\ last' = Ret("verify", c, entered, FALSE, "invalid",
                                   max_attempts - pin_attempts'[c])
                    /\ fails' = [fails EXCEPT ![c] = @ + 1]
                    /\ UNCHANGED <<session_tokens, issued>>
    /\ UNCHANGED <<now, auth_required>>

\* A token check that lets tokens lapse with the PIN window.
verify_token_windowed(tok) == tok \in session_tokens /\ ~Expired

\* verify_token: a set-membership test, no state is touched
verify_token(tok) == tok \in session_tokens

\* A logout that also forgets the failed attempts.
LogoutAllAndAttempts ==
    /\ UNCHANGED <<nvm, saved>>
    /\ session_tokens' = {}
    /\ issued' = {}
    /\ pin_attempts' = <<>>
    /\ last' = Ret("logout_all", NoClient, NoArg, TRUE, "", 0)
    /\ UNCHANGED <<now, current_pin, pin_generated_time, auth_required, fails,
                   rotated_past>>

\* logout_all: session_tokens.clear() and nothing else
LogoutAll ==
    /\ UNCHANGED <<nvm, saved>>
    /\ session_tokens' = {}
    /\ issued' = {}
    /\ last' = Ret("logout_all", NoClient, NoArg, TRUE, "", 0)
    /\ UNCHANGED <<now, current_pin, pin_generated_time, pin_attempts, auth_required,
                   fails, rotated_past>>

Init ==
    /\ now \in {InstantAt(1), InstantAt(2)}
    /\ current_pin \in PINS
    /\ pin_generated_time = now
    /\ session_tokens = {}
    /\ pin_attempts = <<>>
    /\ auth_required = TRUE
    /\ last = Ret("init", NoClient, NoArg, TRUE, "", 0)
    /\ issued = {}
    /\ fails = [c \in Clients |-> 0]
    /\ rotated_past = {}
    /\ nvm = Zeros(NvmLen)
    /\ saved = <<>>

Next ==
    \/ \E t \in Instants : Advance(t)
    \/ GetCurrentPin
    \/ GetPinTimeRemaining
    \/ \E e \in EnteredPins, c \in Clients : VerifyPin(e, c)
    \/ LogoutAll

Spec == Init /\ [][Next]_vars

(***************************************************************************)
(* Claims about DisplayAuth (first definition), checked under Spec         *)
(***************************************************************************)
Elapsed == now - pin_generated_time

\* C1: verify_token(t) is true exactly for the tokens returned by a successful
\* verify since the last logout_all; rotation, failed verifies and lockouts
\* remove no token.
TokenValidity == \A t \in AllTokens : verify_token(t) <=> t \in issued

\* C1 witness: a token issued earlier is still valid after the PIN has rotated
\* and a client has been locked out.
TokenSurvives ==
    /\ \E t \in issued : verify_token(t)
    /\ pin_generated_time >= Window
    /\ \E c \in Clients : LockedOut(c) /\ fails[c] > max_attempts

\* C2: a verify by a client with max_attempts failures since its last success
\* fails with the lockout reason and adds no token, whatever PIN is submitted.
LockoutRejects ==
    [][(last'.op = "verify" /\ fails[last'.client] >= max_attempts)
          => (/\ ~last'.ok
              /\ last'.reason = "lockout"
              /\ session_tokens' = session_tokens)]_vars

\* C2 witness: a locked-out client submitted the current PIN and was rejected.
LockedOutWithRightPin ==
    /\ last.op = "verify"
    /\ last.reason = "lockout"
    /\ last.arg = current_pin
    /\ fails[last.client] > max_attempts

\* C3: a client locked out in an earlier PIN window authenticates with the
\* rotated PIN: its verify succeeds and returns a valid token.
LockoutEndsWithRotation ==
    (last.op = "verify" /\ last.client \in rotated_past /\ last.arg = current_pin)
        => (last.ok /\ verify_token(last.value))

\* C7: while less than the duration has passed since the PIN was generated, no
\* call changes the PIN or its generation time, and current() returns that PIN.
PinStable ==
    [][(now' - pin_generated_time < Window)
          => (/\ pin_generated_time' = pin_generated_time
              /\ current_pin' = current_pin
              /\ (last'.op = "current" => last'.value = current_pin))]_vars

\* C7 witness: current() answered inside the window, after failed verifies.
CurrentInsideWindow ==
    /\ last.op = "current"
    /\ Elapsed > 0 /\ Elapsed < Window
    /\ last.value = current_pin
    /\ DOMAIN pin_attempts # {}

\* C8 as stated: a current() call at any elapsed time >= duration regenerates
\* the PIN and stamps it with the time of the call.
RotatesAtDuration ==
    [][(last'.op = "current" /\ Elapsed >= Window)
          => (pin_generated_time' = now /\ last'.value = current_pin')]_vars

\* C8 amended: a current() call at an elapsed time > duration regenerates the
\* PIN and stamps it with the time of the call; at exactly the duration the
\* old PIN is still returned.
RotatesPastDuration ==
    [][(last'.op = "current")
          => (/\ Elapsed > Window
                    => (pin_generated_time' = now /\ last'.value = current_pin')
              /\ Elapsed = Window
                    => (/\ pin_generated_time' = pin_generated_time
                        /\ last'.value = current_pin))]_vars

\* C8 witness: current() has just rotated a PIN whose window had run out.
CurrentRotated ==
    /\ last.op = "current"
    /\ pin_generated_time = now
    /\ now > Window

\* C9 as stated: time_remaining() returns max(0, duration - elapsed).
RemainingExact ==
    (last.op = "time_remaining")
        => (last.value * TicksPerSecond = Max(0, Window - Elapsed))

\* C9 amended: time_remaining() returns max(0, duration - elapsed) truncated to
\* whole seconds, a value in [0, duration], and changes no state.
RemainingTruncated ==
    [][(last'.op = "time_remaining")
          => (/\ last'.value = Max(0, Window - Elapsed) \div TicksPerSecond
              /\ last'.value \in 0..pin_duration
              /\ UNCHANGED <<now, current_pin, pin_generated_time, session_tokens,
                             pin_attempts, auth_required>>)]_vars

\* C9 witness: time_remaining() was asked about an expired PIN, answered 0 and
\* the expired PIN is still in place.
RemainingOfExpired ==
    /\ last.op = "time_remaining"
    /\ Elapsed > Window
    /\ last.value = 0

\* The count verify_pin holds against a client: pin_attempts.get(c, 0).
Attempts(d, c) == IF c \in DOMAIN d THEN d[c] ELSE 0

\* C22: a verify by a client whose counter has reached max_attempts fails and
\* changes neither the PIN, expired or not, nor its generation time, nor any
\* attempt counter, nor the token set.
LockedVerifyTouchesNothing ==
    [][(last'.op = "verify" /\ Attempts(pin_attempts, last'.client) >= max_attempts)
          => (/\ ~last'.ok
              /\ current_pin' = current_pin
              /\ pin_generated_time' = pin_generated_time
              /\ pin_attempts' = pin_attempts
              /\ session_tokens' = session_tokens)]_vars

\* C22 witness: a locked-out client was rejected while the PIN was past its
\* window, and the PIN is still the expired one.
LockedOutOnExpiredPin ==
    /\ last.op = "verify"
    /\ last.reason = "lockout"
    /\ pin_attempts[last.client] = max_attempts
    /\ Elapsed > Window

\* C23: a verify that succeeded matched the submitted value against the
\* service's PIN, and that PIN is no older than the duration: an expired one
\* was replaced during the call.
VerifiedAgainstLivePin ==
    (last.op = "verify" /\ last.ok)
        => (/\ last.arg = current_pin
            /\ Elapsed <= Window
            /\ Elapsed >= 0)

\* C23 witness: a verify succeeded at the instant the PIN was generated, two
\* windows after the first PIN.
VerifiedWithRotatedPin ==
    /\ last.op = "verify"
    /\ last.ok
    /\ pin_generated_time = now
    /\ now > Window

\* C24: after a successful verify the client has no failed attempt on record
\* and the token returned is in the token set.
SuccessResetsCounter ==
    (last.op = "verify" /\ last.ok)
        => (/\ Attempts(pin_attempts, last.client) = 0
            /\ last.value \in session_tokens
            /\ last.value \in AllTokens)

\* C24 witness: a client succeeded while the other one still has failures.
SucceededBesideFailures ==
    /\ last.op = "verify"
    /\ last.ok
    /\ verify_token(last.value)
    /\ \E b \in Clients \ {last.client} : Attempts(pin_attempts, b) = max_attempts - 1

\* C25: a mismatching verify by a client that is not locked out adds exactly
\* one to that client's count, leaves the token set as it was and reports
\* max_attempts minus the new count, which is not negative.
MismatchCountsOnce ==
    [][(last'.op = "verify" /\ last'.reason = "invalid")
          => (/\ Attempts(pin_attempts, last'.client) < max_attempts
              /\ Attempts(pin_attempts', last'.client)
                    = Attempts(pin_attempts, last'.client) + 1
              /\ session_tokens' = session_tokens
              /\ last'.value = max_attempts - Attempts(pin_attempts', last'.client)
              /\ last'.value >= 0)]_vars

\* C25 witness: the mismatch that used up the last attempt reported none left.
LastAttemptUsed ==
    /\ last.op = "verify"
    /\ last.reason = "invalid"
    /\ last.value = 0
    /\ pin_attempts[last.client] = max_attempts

\* C26: every client in the attempt-counter map has a count from 1 to
\* max_attempts.
CountersBounded ==
    \A c \in DOMAIN pin_attempts : pin_attempts[c] >= 1 /\ pin_attempts[c] <= max_attempts

\* C26 witness: a client at max_attempts went on submitting.
CounterHeldAtMax ==
    \E c \in DOMAIN pin_attempts : pin_attempts[c] = max_attempts /\ fails[c] = MaxFails

\* C27: a verify for one client changes no other client's count.
OtherCountersKept ==
    [][(last'.op = "verify")
          => \A b \in Clients \ {last'.client} :
                /\ (b \in DOMAIN pin_attempts') <=> (b \in DOMAIN pin_attempts)
                /\ Attempts(pin_attempts', b) = Attempts(pin_attempts, b)]_vars

\* C27 witness: one client succeeded while the other is locked out and stays so.
SucceededBesideLockout ==
    /\ last.op = "verify"
    /\ last.ok
    /\ \E b \in Clients \ {last.client} : LockedOut(b)

\* C28: a current() call that rotates the PIN leaves every attempt counter and
\* the token set as they were.
RotationKeepsCountersAndTokens ==
    [][(last'.op = "current" /\ pin_generated_time' # pin_generated_time)
          => (/\ pin_attempts' = pin_attempts
              /\ session_tokens' = session_tokens)]_vars

\* C28 witness: current() has just rotated the PIN of a service that holds a
\* token and a locked-out client.
RotatedBesideLockoutAndToken ==
    /\ last.op = "current"
    /\ pin_generated_time = now
    /\ now >= Window
    /\ session_tokens # {}
    /\ \E c \in Clients : LockedOut(c)

\* C18: logout_all empties the token set, so that verify_token is false for
\* every token issued before it, and leaves the attempt counters, the current
\* PIN and its generation time as they were.
LogoutDropsOnlyTokens ==
    [][(last'.op = "logout_all")
          => (/\ session_tokens' = {}
              /\ \A tok \in issued \cup session_tokens : ~(verify_token(tok))'
              /\ pin_attempts' = pin_attempts
              /\ current_pin' = current_pin
              /\ pin_generated_time' = pin_generated_time)]_vars

\* C18 witness: logout_all has run on a service that had rotated its PIN and
\* holds a client's failed attempts; both are still there and no token is.
LoggedOutKeepingAttempts ==
    /\ last.op = "logout_all"
    /\ session_tokens = {}
    /\ \E c \in Clients : c \in DOMAIN pin_attempts /\ pin_attempts[c] > 0
    /\ pin_generated_time > InstantAt(2)

(***************************************************************************)
(* EnhancedWebServer: the access gate and the handlers in front of it.     *)
(* self.auth is an instance of the DisplayAuth the module name is bound to *)
(* when the server is constructed: the second definition, which has no     *)
(* pin_attempts, no client id and no logout_all.  Its refresh_pin and      *)
(* get_current_pin are the first definition's, statement for statement.    *)
(***************************************************************************)
\* 'authenticated_session_token', the literal _check_auth looks for
SessionLiteral ==
    <<"a", "u", "t", "h", "e", "n", "t", "i", "c", "a", "t", "e", "d", "_",
      "s", "e", "s", "s", "i", "o", "n", "_", "t", "o", "k", "e", "n">>

\* 'Bearer ' + authToken, the header the page's script sends
BearerPrefix == <<"B", "e", "a", "r", "e", "r", " ">>
Bearer(tok) == BearerPrefix \o tok

\* The credential a header value carries: what follows 'Bearer ', or else all
\* of it.
Credential(h) ==
    IF Len(h) >= Len(BearerPrefix) /\ SubSeq(h, 1, Len(BearerPrefix)) = BearerPrefix
    THEN SubSeq(h, Len(BearerPrefix) + 1, Len(h))
    ELSE h

\* str(request.headers) of a headers object that is no dict: the header's name
\* and value are in the text.
AuthorizationName ==
    <<"A", "u", "t", "h", "o", "r", "i", "z", "a", "t", "i", "o", "n", ":", " ">>
HeadersText(h) == AuthorizationName \o h

\* The tokens the second DisplayAuth mints: f"session_{int(time.monotonic() * 1000)}"
HttpTokens == {FallbackToken(t) : t \in Instants}

\* Requests: the headers are a dict or another object; the Authorization header
\* is absent (the empty text stands for it, as headers.get's default does) or
\* carries a bearer token or the literal.
HeaderValues ==
    {<<>>, SessionLiteral, Bearer(SessionLiteral)} \cup {Bearer(t) : t \in HttpTokens}
Requests == [is_dict : BOOLEAN, authorization : HeaderValues]

\* The text _check_auth searches
auth_header(req) ==
    IF req.authorization = <<>> THEN <<>>
    ELSE IF req.is_dict THEN req.authorization
    ELSE HeadersText(req.authorization)

\* A gate that does not look at the auth_required flag.
CheckAuthFlagless(req) == Contains(auth_header(req), SessionLiteral)

\* _check_auth
CheckAuth(req) ==
    IF ~auth_required THEN TRUE
    ELSE Contains(auth_header(req), SessionLiteral)

\* _setup_routes: the paths and methods the server registers a handler for
Routes ==
    {<<"/", "GET">>, <<"/api/auth", "POST">>, <<"/api/totp/setup", "GET">>,
     <<"/api/status", "GET">>, <<"/api/execute", "POST">>, <<"/api/files", "GET">>,
     <<"/api/files/read", "POST">>, <<"/api/files/write", "POST">>,
     <<"/api/files/delete", "POST">>, <<"/api/files/rename", "POST">>,
     <<"/api/files/mkdir", "POST">>, <<"/api/display", "GET">>,
     <<"/api/button", "POST">>, <<"/api/apps", "GET">>, <<"/api/apps/run", "POST">>}

\* The requests clients send to the authentication and status paths; the
\* page's own script fetches /api/auth/info.
Methods == {"GET", "POST"}
AuthPaths == {"/api/auth", "/api/auth/info", "/api/status"}

\* The second DisplayAuth's verify_pin, under POST /api/auth: _handle_auth
\* answers 400 without a body, 200 with the token, 401 with the reason.  It
\* passes no client id and verify_pin counts nothing: the history counts every
\* failed submission against every client.
NoBody == "no body"
HandleAuth(entered) ==
    /\ UNCHANGED <<nvm, saved>>
    /\ <<"/api/auth", "POST">> \in Routes
    /\ IF entered = NoBody
       THEN /\ last' = HttpRet("auth", entered, FALSE, "No data", 0, 400)
            /\ UNCHANGED <<current_pin, pin_generated_time, rotated_past,
                           session_tokens, issued, fails>>
       ELSE /\ get_current_pin
            /\ IF entered = current_pin'
               THEN /\ Cardinality(session_tokens \cup {FallbackToken(now)}) <= MaxSessions
                    /\ session_tokens' = session_tokens \cup {FallbackToken(now)}
                    /\ issued' = issued \cup {FallbackToken(now)}
                    /\ fails' = [c \in Clients |-> 0]
                    /\ last' = HttpRet("auth", entered, TRUE, "", FallbackToken(now), 200)
               ELSE /\ \A c \in Clients : fails[c] < MaxFails
                    /\ fails' = [c \in Clients |-> fails[c] + 1]
                    /\ last' = HttpRet("auth", entered, FALSE, "Invalid PIN", 0, 401)
                    /\ UNCHANGED <<session_tokens, issued>>
    /\ UNCHANGED <<now, pin_attempts, auth_required>>

\* _handle_auth_info: the current PIN and int(get_time_remaining()).  No route
\* of _setup_routes leads to it, so it is no step of the server.
HandleAuthInfo ==
    /\ UNCHANGED <<nvm, saved>>
    /\ <<"/api/auth/info", "GET">> \in Routes
    /\ get_current_pin
    /\ last' = HttpRet("auth_info", <<"GET", "/api/auth/info">>, TRUE, "",
                       [pin |-> current_pin', time_remaining |-> get_pin_time_remaining'],
                       200)
    /\ UNCHANGED <<now, session_tokens, pin_attempts, auth_required, issued, fails>>

\* A request whose path and method _setup_routes registered no handler for:
\* none of the server's handlers runs and the HTTP library answers 404.
Unrouted(method, path) ==
    /\ UNCHANGED <<nvm, saved>>
    /\ <<path, method>> \notin Routes
    /\ last' = HttpRet("unrouted", <<method, path>>, FALSE, "Not Found", 0, 404)
    /\ UNCHANGED <<now, current_pin, pin_generated_time, session_tokens, pin_attempts,
                   auth_required, issued, fails, rotated_past>>

\* GET /api/status, a protected route: _handle_status answers 401 when the gate
\* rejects the request.
HandleStatus(req) ==
    /\ UNCHANGED <<nvm, saved>>
    /\ <<"/api/status", "GET">> \in Routes
    /\ last' = HttpRet("status", req, CheckAuth(req), "",  0,
                       IF CheckAuth(req) THEN 200 ELSE 401)
    /\ UNCHANGED <<now, current_pin, pin_generated_time, session_tokens, pin_attempts,
                   auth_required, issued, fails, rotated_past>>

\* The routes whose handlers begin with `if not self._check_auth(request):
\* return ... status=401`, /api/status apart, which HandleStatus models.
GatedRoutes ==
    Routes \ {<<"/", "GET">>, <<"/api/auth", "POST">>, <<"/api/totp/setup", "GET">>,
              <<"/api/status", "GET">>}

\* The handler of a gated route: 401 when the gate rejects the request, else it
\* goes on to its action, which lies outside this model.  The record notes the
\* gate's verdict on the request.
HandleGated(route, req) ==
    /\ UNCHANGED <<nvm, saved>>
    /\ route \in GatedRoutes
    /\ last' = HttpRet("api", <<route[2], route[1]>>, CheckAuth(req),
                       IF CheckAuth(req) THEN "admitted" ELSE "rejected", 0,
                       IF CheckAuth(req) THEN 200 ELSE 401)
    /\ UNCHANGED <<now, current_pin, pin_generated_time, session_tokens, pin_attempts,
                   auth_required, issued, fails, rotated_past>>

\* GET /api/totp/setup: _handle_totp_setup never calls _check_auth.  It reads
\* or creates the 'main' secret and answers with it, or answers 500 when
\* anything in it raises; `works` is which of the two happens.
HandleTotpSetup(req, works) ==
    /\ UNCHANGED <<nvm, saved>>
    /\ <<"/api/totp/setup", "GET">> \in Routes
    /\ last' = HttpRet("totp_setup", <<"GET", "/api/totp/setup">>, TRUE,
                       IF CheckAuth(req) THEN "admitted" ELSE "rejected", 0,
                       IF works THEN 200 ELSE 500)
    /\ UNCHANGED <<now, current_pin, pin_generated_time, session_tokens, pin_attempts,
                   auth_required, issued, fails, rotated_past>>

\* EnhancedWebServer.__init__ and start_production_server(auth_required=...)
InitHttp ==
    /\ now \in {InstantAt(1), InstantAt(2)}
    /\ current_pin \in PINS
    /\ pin_generated_time = now
    /\ session_tokens = {}
    /\ pin_attempts = <<>>
    /\ auth_required \in BOOLEAN
    /\ last = Ret("init", NoClient, NoArg, TRUE, "", 0)
    /\ issued = {}
    /\ fails = [c \in Clients |-> 0]
    /\ rotated_past = {}
    /\ nvm = Zeros(NvmLen)
    /\ saved = <<>>

NextHttp ==
    \/ \E t \in Instants : Advance(t)
    \/ \E e \in EnteredPins \cup {NoBody} : HandleAuth(e)
    \/ \E req \in Requests : HandleStatus(req)
    \/ \E method \in Methods, path \in AuthPaths : Unrouted(method, path)

SpecHttp == InitHttp /\ [][NextHttp]_vars

\* The server's other /api routes, with POST /api/auth to obtain tokens.
NextRoutes ==
    \/ \E e \in EnteredPins : HandleAuth(e)
    \/ \E route \in GatedRoutes, req \in Requests : HandleGated(route, req)
    \/ \E req \in Requests, works \in BOOLEAN : HandleTotpSetup(req, works)

SpecRoutes == InitHttp /\ [][NextRoutes]_vars

(***************************************************************************)
(* Claims about the access gate, checked under SpecHttp                    *)
(***************************************************************************)
\* C4: with auth_required true, the gate admits a request only if the
\* credential in its Authorization value is a token in the token set.
GateAdmitsOnlyTokens ==
    (last.op = "status" /\ auth_required /\ last.ok)
        => verify_token(Credential(last.arg.authorization))

\* C5: with auth_required true, a request with 'Bearer <token>' for a token
\* issued by a successful POST /api/auth is admitted.
GateAdmitsBearer ==
    (/\ last.op = "status"
     /\ auth_required
     /\ \E t \in issued : last.arg.authorization = Bearer(t))
        => (last.ok /\ last.status = 200)

\* C6: with auth_required false, the gate admits every request.
GateOpenWhenNotRequired ==
    (last.op = "status" /\ ~auth_required) => (last.ok /\ last.status = 200)

\* C6 witness: with auth_required false and tokens issued, a request without
\* an Authorization header was admitted.
OpenGateAdmitsBare ==
    /\ last.op = "status"
    /\ ~auth_required
    /\ last.arg.authorization = <<>>
    /\ session_tokens # {}
    /\ last.ok

\* C19: after max_attempts failed PIN submissions to POST /api/auth with no
\* success between them, the next submission is answered with an error and no
\* token, whatever PIN it carries.
HttpLockoutRejects ==
    [][(/\ last'.op = "auth"
        /\ last'.arg # NoBody
        /\ \A c \in Clients : fails[c] >= max_attempts)
          => (/\ ~last'.ok
              /\ last'.status >= 400
              /\ session_tokens' = session_tokens)]_vars

\* C20: a GET /api/auth/info never goes without a handler.
AuthInfoIsRouted ==
    (last.op = "unrouted") => last.arg # <<"GET", "/api/auth/info">>

\* C30: with auth_required true, a request the gate rejects is answered 401 by
\* every registered /api route other than POST /api/auth, and the handler does
\* not go on to its action.
GateGuardsEveryApiRoute ==
    (last.op \in {"api", "totp_setup"} /\ auth_required /\ last.reason = "rejected")
        => (last.status = 401 /\ ~last.ok)

(***************************************************************************)
(* NVMSecretManager's methods as actions                                   *)
(***************************************************************************)
SaveSecret(secret, write_ok) ==
    /\ save_secret(secret, write_ok)
    /\ last' = Ret("save", NoClient, secret, SaveWorks(secret, write_ok),
                   IF write_ok THEN "" ELSE "write failed", 0)
    /\ saved' = IF SaveWorks(secret, write_ok) THEN <<secret>> ELSE saved
    /\ UNCHANGED <<now, current_pin, pin_generated_time, session_tokens, pin_attempts,
                   auth_required, issued, fails, rotated_past>>

\* load_secret; the record keeps the secret generated during the call, if any
LoadSecret(generated, write_ok) ==
    /\ UNCHANGED saved
    /\ load_secret(generated, write_ok)
    /\ last' = Ret("load", NoClient, IF ValidFrame THEN NoArg ELSE generated, TRUE,
                   LoadReason(generated, write_ok), LoadValue(generated, write_ok))
    /\ UNCHANGED <<now, current_pin, pin_generated_time, session_tokens, pin_attempts,
                   auth_required, issued, fails, rotated_past>>

\* get_secret_info: without the magic it reports nothing stored; with it, it
\* reads the length byte and calls load_secret for the secret
GetSecretInfo(generated, write_ok) ==
    /\ UNCHANGED saved
    /\ IF Slice(nvm, nvm_offset, nvm_offset + 4) # magic
       THEN /\ last' = Ret("info", NoClient, NoArg, FALSE, "No secret stored", NoArg)
            /\ UNCHANGED nvm
       ELSE /\ load_secret(generated, write_ok)
            /\ last' = Ret("info", NoClient, IF ValidFrame THEN NoArg ELSE generated,
                           TRUE, LoadReason(generated, write_ok),
                           [length |-> StoredLen,
                            secret |-> LoadValue(generated, write_ok)])
    /\ UNCHANGED <<now, current_pin, pin_generated_time, session_tokens, pin_attempts,
                   auth_required, issued, fails, rotated_past>>

\* clear_secret: nvm_size zero bytes at the offset
ClearSecret(write_ok) ==
    /\ IF write_ok /\ nvm_offset + nvm_size <= Len(nvm)
       THEN nvm' = WriteAt(nvm, nvm_offset, Zeros(nvm_size))
       ELSE UNCHANGED nvm
    /\ last' = Ret("clear", NoClient, NoArg,
                   write_ok /\ nvm_offset + nvm_size <= Len(nvm), "", 0)
    /\ saved' = IF write_ok /\ nvm_offset + nvm_size <= Len(nvm) THEN <<>> ELSE saved
    /\ UNCHANGED <<now, current_pin, pin_generated_time, session_tokens, pin_attempts,
                   auth_required, issued, fails, rotated_past>>

\* What the storage can hold when the manager first sees it: zeros, erased
\* flash, frames of every length byte from 0 to secret_length + 1, a frame
\* whose payload is not ASCII.
FrameOf(n, c) == magic \o <<n>> \o [i \in 1..(NvmLen - 5) |-> IF i <= n THEN c ELSE 0]
InitialNvm ==
    {Zeros(NvmLen), [i \in 1..NvmLen |-> 255]}
        \cup {FrameOf(n, 66) : n \in 0..(secret_length + 1)}
        \cup {FrameOf(secret_length, 233)}

\* The secrets callers pass to save_secret: strings of base32 characters of
\* every length up to one longer than secret_length, whose last character may
\* differ from the others, a string that is not ASCII, and one whose only
\* non-ASCII character lies beyond secret_length.
InputSecrets ==
    UNION {{[i \in 1..n |-> IF i < n THEN a ELSE b] : a, b \in SecretChars} :
              n \in 0..(secret_length + 1)}
        \cup {<<233>>, [i \in 1..(secret_length + 1) |-> IF i <= secret_length THEN 66 ELSE 233]}

InitNVM ==
    /\ nvm \in InitialNvm
    /\ saved = <<>>
    /\ now = 0
    /\ current_pin = "482913"
    /\ pin_generated_time = 0
    /\ session_tokens = {}
    /\ pin_attempts = <<>>
    /\ auth_required = TRUE
    /\ last = Ret("init", NoClient, NoArg, TRUE, "", 0)
    /\ issued = {}
    /\ fails = [c \in Clients |-> 0]
    /\ rotated_past = {}

NextNVM ==
    \/ \E secret \in InputSecrets, write_ok \in BOOLEAN : SaveSecret(secret, write_ok)
    \/ \E generated \in GeneratedSecrets, write_ok \in BOOLEAN :
          LoadSecret(generated, write_ok)
    \/ \E write_ok \in BOOLEAN : ClearSecret(write_ok)
    \/ \E generated \in GeneratedSecrets, write_ok \in BOOLEAN :
          GetSecretInfo(generated, write_ok)

SpecNVM == InitNVM /\ [][NextNVM]_vars

(***************************************************************************)
(* Claims about NVMSecretManager, checked under SpecNVM                    *)
(***************************************************************************)
\* C10: a load that follows a successful save(s) of a non-empty s returns s cut
\* to secret_length characters, or padded on the right to secret_length, and
\* it returns what is stored: nothing is generated.
SaveLoadRoundTrip ==
    (last.op = "load" /\ saved # <<>> /\ Len(saved[1]) > 0)
        => (/\ Len(last.value) = secret_length
            /\ \A i \in 1..secret_length :
                  last.value[i] = IF i <= Len(saved[1]) THEN saved[1][i] ELSE PadChar
            /\ last.reason = "stored")

\* C10 witness: a load returned the padded form of the one-character secret
\* saved before it.
LoadedPaddedSecret ==
    /\ last.op = "load"
    /\ saved = << <<66>> >>
    /\ last.value = <<66>> \o [i \in 1..(secret_length - 1) |-> PadChar]

\* The frame region [offset, offset + 5 + secret_length) of the storage, and
\* what load_secret rejects in the header: a wrong magic, a length byte of 0 or
\* above secret_length.
FrameRegion(store) == Slice(store, nvm_offset, nvm_offset + 5 + secret_length)
InvalidHeader ==
    \/ \E i \in 1..4 : nvm[nvm_offset + i] # magic[i]
    \/ nvm[nvm_offset + 5] = 0
    \/ nvm[nvm_offset + 5] > secret_length

\* C11: a load that finds an invalid header generates a secret and saves it,
\* and when that write succeeds the frame region holds the magic, the length
\* byte secret_length and, as payload, the secret the load returned.
RegeneratesOnInvalidFrame ==
    [][(last'.op = "load" /\ InvalidHeader)
          => (/\ last'.reason \in {"generated", "fallback"}
              /\ last'.arg \in GeneratedSecrets
              /\ (last'.reason = "generated")
                    => FrameRegion(nvm') = magic \o <<secret_length>> \o last'.value)]_vars

\* C11 witness: a load generated a secret, wrote it, and the storage holds a
\* valid frame of the secret it returned.
LoadStoredGenerated ==
    /\ last.op = "load"
    /\ last.reason = "generated"
    /\ last.arg = last.value
    /\ FrameRegion(nvm) = magic \o <<secret_length>> \o last.value

\* C12: a load whose write fails during regeneration returns the secret it
\* generated during that call.
FailedWriteReturnsGenerated ==
    (last.op = "load" /\ last.reason = "fallback")
        => (last.value = last.arg /\ last.value \in GeneratedSecrets)

\* C13: a save whose write fails returns false and leaves the storage as it
\* was; every save that returns false leaves it as it was; a save that returns
\* true has written magic, the length byte secret_length and the secret cut or
\* padded to secret_length at the offset.
SaveAllOrNothing ==
    [][(last'.op = "save")
          => (/\ last'.ok \in BOOLEAN
              /\ (last'.reason = "write failed") => ~last'.ok
              /\ ~last'.ok => nvm' = nvm
              /\ last'.ok =>
                    /\ Slice(nvm', nvm_offset, nvm_offset + 4) = magic
                    /\ nvm'[nvm_offset + 5] = secret_length
                    /\ \A i \in 1..secret_length :
                          nvm'[nvm_offset + 5 + i] =
                              IF i <= Len(last'.arg) THEN last'.arg[i] ELSE PadChar)]_vars

\* C13 witness: a save whose write failed returned false over the frame of an
\* earlier save, which is still there.
FailedSaveKeptFrame ==
    /\ last.op = "save"
    /\ last.reason = "write failed"
    /\ ~last.ok
    /\ saved # <<>>
    /\ saved[1] # last.arg
    /\ FrameRegion(nvm) = magic \o <<secret_length>> \o PadOrTruncate(saved[1])

\* C14: after a successful clear every byte of the frame region is zero.
ClearZeroesFrame ==
    (last.op = "clear" /\ last.ok)
        => \A i \in 1..(5 + secret_length) : nvm[nvm_offset + i] = 0

\* C15: get_secret_info leaves the stored bytes as they were.
InfoLeavesStorage ==
    [][(last'.op = "info") => nvm' = nvm]_vars

\* C16: a load that directly follows a load returns the same secret.
LoadRepeats ==
    [][(last.op = "load" /\ last'.op = "load") => last'.value = last.value]_vars

\* C17: the load that follows a successful clear finds no valid frame and
\* returns the secret it generated during that call.
LoadAfterClearGenerates ==
    [][(last.op = "clear" /\ last.ok /\ last'.op = "load")
          => (/\ last'.reason # "stored"
              /\ last'.arg \in GeneratedSecrets
              /\ last'.value = last'.arg)]_vars

\* C29: every load returns a secret of exactly secret_length characters.
LoadReturnsFullLength ==
    (last.op = "load") => Len(last.value) = secret_length

(***************************************************************************)
(* The TOTP client (src/stagetwo_totp/totp.py) on the same board: it keeps *)
(* its own record at the start of microcontroller.nvm.                     *)
(***************************************************************************)
\* NVM_KEY = b"TOTP_KEY:"
NVM_KEY == <<84, 79, 84, 80, 95, 75, 69, 89, 58>>
KEY_LENGTH == 16
URL_MAX_LENGTH == 48
\* "https://yourserver.com/devmode/post".encode("utf-8")
server_url ==
    <<104, 116, 116, 112, 115, 58, 47, 47, 121, 111, 117, 114, 115, 101, 114, 118,
      101, 114, 46, 99, 111, 109, 47, 100, 101, 118, 109, 111, 100, 101, 47, 112,
      111, 115, 116>>
\* server_url.encode("utf-8").ljust(URL_MAX_LENGTH, b"\x00")
encoded_url == server_url \o Zeros(URL_MAX_LENGTH - Len(server_url))
\* nvm_write = NVM_KEY + key + encoded_url
nvm_write(key) == NVM_KEY \o key \o encoded_url

\* os.urandom(KEY_LENGTH), two of its values
Keys == {[i \in 1..KEY_LENGTH |-> b] : b \in {7, 255}}

\* bytes.strip(b"\x00")
RECURSIVE StripLeft(_)
StripLeft(b) == IF b # <<>> /\ Head(b) = 0 THEN StripLeft(Tail(b)) ELSE b
RECURSIVE StripRight(_)
StripRight(b) ==
    IF b # <<>> /\ b[Len(b)] = 0 THEN StripRight(SubSeq(b, 1, Len(b) - 1)) ELSE b
Strip(b) == StripRight(StripLeft(b))

\* get_or_generate_secret_and_url: it reads nvm[:64]; a record that starts with
\* NVM_KEY is returned, anything else is overwritten with a new record.  The
\* write is not guarded: a failing write raises out of the function.
GetOrGenerateSecretAndUrl(key, write_ok) ==
    /\ UNCHANGED saved
    /\ IF Slice(nvm, 0, Len(NVM_KEY)) = NVM_KEY
       THEN /\ last' = Ret("totp", NoClient, NoArg,
                           IsAscii(Slice(nvm, Len(NVM_KEY) + KEY_LENGTH, 64)), "stored",
                           [key |-> Slice(nvm, Len(NVM_KEY), Len(NVM_KEY) + KEY_LENGTH),
                            url |-> Strip(Slice(nvm, Len(NVM_KEY) + KEY_LENGTH, 64))])
            /\ UNCHANGED nvm
       ELSE IF write_ok
            THEN /\ nvm' = WriteAt(nvm, 0, nvm_write(key))
                 /\ last' = Ret("totp", NoClient, NoArg, TRUE, "generated",
                                [key |-> key, url |-> server_url])
            ELSE /\ UNCHANGED nvm
                 /\ last' = Ret("totp", NoClient, NoArg, FALSE, "raised", 0)
    /\ UNCHANGED <<now, current_pin, pin_generated_time, session_tokens, pin_attempts,
                   auth_required, issued, fails, rotated_past>>

\* The board's storage when both components run on it: all zero, a frame of
\* NVMSecretManager, or a record of the client.
BoardNvmLen == Max(NvmLen, Len(NVM_KEY) + KEY_LENGTH + URL_MAX_LENGTH + 2)
InitBoard ==
    /\ nvm \in {Zeros(BoardNvmLen),
                 FrameOf(secret_length, 66) \o Zeros(BoardNvmLen - NvmLen)}
                \cup {WriteAt(Zeros(BoardNvmLen), 0, nvm_write(key)) : key \in Keys}
    /\ saved = <<>>
    /\ now = 0
    /\ current_pin = "482913"
    /\ pin_generated_time = 0
    /\ session_tokens = {}
    /\ pin_attempts = <<>>
    /\ auth_required = TRUE
    /\ last = Ret("init", NoClient, NoArg, TRUE, "", 0)
    /\ issued = {}
    /\ fails = [c \in Clients |-> 0]
    /\ rotated_past = {}

NextBoard ==
    \/ NextNVM
    \/ \E key \in Keys, write_ok \in BOOLEAN : GetOrGenerateSecretAndUrl(key, write_ok)

SpecBoard == InitBoard /\ [][NextBoard]_vars

\* C21: a run of the TOTP client leaves the frame region of the secret as it
\* was, so that a saved frame is still there for the next load.
ClientSparesFrame ==
    [][(last'.op = "totp") => FrameRegion(nvm') = FrameRegion(nvm)]_vars

====
